---- MODULE Spec2Model ----
(***************************************************************************)
(* The BLAKE2 hash engines of this repository: package blake2b (64-bit     *)
(* words, src/blake2b/blake2b.go) and package blake2s (32-bit words,       *)
(* src/unnamed/part_000).  The two files are the same program up to word   *)
(* width, constants and one slice expression in Write; every operator      *)
(* below takes the package name and follows the source line by line.       *)
(*                                                                         *)
(* A machine word is a tuple of 16-bit limbs, least significant first      *)
(* (4 limbs for uint64, 2 for uint32): TLC's integers are 32 bits wide.    *)
(* A byte slice is a sequence of numbers 0..255.                           *)
(***************************************************************************)
EXTENDS Integers, Sequences, FiniteSets, TLC

Packages == {"blake2b", "blake2s"}

\* const BlockSize, const KeySize
BlockSizeB == 128
BlockSizeS == 64
KeySizeB == 64
KeySizeS == 32
BlockSize(pkg) == IF pkg = "blake2b" THEN BlockSizeB ELSE BlockSizeS
KeySize(pkg) == IF pkg = "blake2b" THEN KeySizeB ELSE KeySizeS

\* func (d *digest) Size() int
SizeB == 64
SizeS == 32
Size(pkg) == IF pkg = "blake2b" THEN SizeB ELSE SizeS

\* bytes per word (uint64 / uint32)
WordBytes(pkg) == IF pkg = "blake2b" THEN 8 ELSE 4

-----------------------------------------------------------------------------
(* Machine arithmetic on limb tuples.                                      *)

Limb == 65536

\* bitwise exclusive or of two numbers below 2^n
RECURSIVE xorBits(_, _, _)
xorBits(a, b, n) ==
  IF n = 0 THEN 0
  ELSE ((a + b) % 2) + 2 * xorBits(a \div 2, b \div 2, n - 1)

\* the exclusive or of every pair of bytes, tabulated once
RECURSIVE xorRow(_, _, _)
xorRow(a, lo, hi) ==
  IF lo = hi THEN <<xorBits(a, lo, 8)>>
  ELSE xorRow(a, lo, (lo + hi) \div 2) \o xorRow(a, (lo + hi) \div 2 + 1, hi)
RECURSIVE xorRows(_, _)
xorRows(lo, hi) ==
  IF lo = hi THEN <<xorRow(lo, 0, 255)>>
  ELSE xorRows(lo, (lo + hi) \div 2) \o xorRows((lo + hi) \div 2 + 1, hi)
xorTable == xorRows(0, 255)

xor16(a, b) ==
  xorTable[(a % 256) + 1][(b % 256) + 1]
    + 256 * xorTable[(a \div 256) + 1][(b \div 256) + 1]

\* x ^ y on words
Xor(x, y) ==
  IF Len(x) = 2
  THEN <<xor16(x[1], y[1]), xor16(x[2], y[2])>>
  ELSE <<xor16(x[1], y[1]), xor16(x[2], y[2]),
         xor16(x[3], y[3]), xor16(x[4], y[4])>>

\* x + y on words, modulo 2^W (Go's unsigned addition wraps)
Add(x, y) ==
  IF Len(x) = 2
  THEN LET s1 == x[1] + y[1]
           s2 == x[2] + y[2] + (s1 \div Limb)
       IN  <<s1 % Limb, s2 % Limb>>
  ELSE LET s1 == x[1] + y[1]
           s2 == x[2] + y[2] + (s1 \div Limb)
           s3 == x[3] + y[3] + (s2 \div Limb)
           s4 == x[4] + y[4] + (s3 \div Limb)
       IN  <<s1 % Limb, s2 % Limb, s3 % Limb, s4 % Limb>>

\* 2^r for r in 0..16
Pow2Table == <<1, 2, 4, 8, 16, 32, 64, 128, 256, 512, 1024, 2048, 4096, 8192, 16384, 32768, 65536>>

\* rotr64 / rotr32: (w >> c) | (w << (W - c)), for 0 < c < W.  With c = 16*q + r,
\* limb i of the result takes its low 16 - r bits from the top of limb i + q
\* and its high r bits from the bottom of limb i + q + 1 (indices modulo the
\* number of limbs); the two shifted halves never overlap, so | is +
rotr(w, c) ==
  LET q == c \div 16
      r == c % 16
      p == Pow2Table[r + 1]
      pp == Pow2Table[17 - r]
  IN  IF Len(w) = 2
      THEN LET w0 == w[(q % 2) + 1]
               w1 == w[((q + 1) % 2) + 1]
           IN  IF r = 0 THEN <<w0, w1>>
               ELSE <<(w0 \div p) + (w1 % p) * pp, (w1 \div p) + (w0 % p) * pp>>
      ELSE LET w0 == w[(q % 4) + 1]
               w1 == w[((q + 1) % 4) + 1]
               w2 == w[((q + 2) % 4) + 1]
               w3 == w[((q + 3) % 4) + 1]
           IN  IF r = 0 THEN <<w0, w1, w2, w3>>
               ELSE <<(w0 \div p) + (w1 % p) * pp, (w1 \div p) + (w2 % p) * pp,
                      (w2 \div p) + (w3 % p) * pp, (w3 \div p) + (w0 % p) * pp>>

\* x < y on words (unsigned)
RECURSIVE LessFrom(_, _, _)
LessFrom(x, y, i) ==
  IF i = 0 THEN FALSE
  ELSE IF x[i] # y[i] THEN x[i] < y[i]
  ELSE LessFrom(x, y, i - 1)
Less(x, y) == LessFrom(x, y, Len(x))

\* the word of value n, for 0 <= n < 2^31
Word(pkg, n) ==
  IF pkg = "blake2s" THEN <<n % Limb, n \div Limb>>
  ELSE <<n % Limb, n \div Limb, 0, 0>>
Zero(pkg) == Word(pkg, 0)
\* 0xffffffffffffffff / 0xffffffff
AllOnes(pkg) ==
  IF pkg = "blake2s" THEN <<Limb - 1, Limb - 1>>
  ELSE <<Limb - 1, Limb - 1, Limb - 1, Limb - 1>>

\* binary.LittleEndian.Uint64(b[at:]) / Uint32(b[at:]), at counted from 0
LittleEndianWord(pkg, b, at) ==
  IF pkg = "blake2s"
  THEN <<b[at + 1] + 256 * b[at + 2], b[at + 3] + 256 * b[at + 4]>>
  ELSE <<b[at + 1] + 256 * b[at + 2], b[at + 3] + 256 * b[at + 4],
         b[at + 5] + 256 * b[at + 6], b[at + 7] + 256 * b[at + 8]>>

\* binary.LittleEndian.PutUint64 / PutUint32: the bytes of a word
WordBytesLE(x) ==
  IF Len(x) = 2
  THEN <<x[1] % 256, x[1] \div 256, x[2] % 256, x[2] \div 256>>
  ELSE <<x[1] % 256, x[1] \div 256, x[2] % 256, x[2] \div 256,
         x[3] % 256, x[3] \div 256, x[4] % 256, x[4] \div 256>>

-----------------------------------------------------------------------------
(* The constant tables.                                                    *)

\* a word from the hexadecimal digits of its source literal, four digits at
\* a time, most significant first
W4(a, b, c, d) == <<d, c, b, a>>
W2(a, b) == <<b, a>>

ivB ==
  << W4(\h6a09, \he667, \hf3bc, \hc908), W4(\hbb67, \hae85, \h84ca, \ha73b),
     W4(\h3c6e, \hf372, \hfe94, \hf82b), W4(\ha54f, \hf53a, \h5f1d, \h36f1),
     W4(\h510e, \h527f, \hade6, \h82d1), W4(\h9b05, \h688c, \h2b3e, \h6c1f),
     W4(\h1f83, \hd9ab, \hfb41, \hbd6b), W4(\h5be0, \hcd19, \h137e, \h2179) >>
ivS ==
  << W2(\h6A09, \hE667), W2(\hBB67, \hAE85), W2(\h3C6E, \hF372), W2(\hA54F, \hF53A),
     W2(\h510E, \h527F), W2(\h9B05, \h688C), W2(\h1F83, \hD9AB), W2(\h5BE0, \hCD19) >>
iv(pkg) == IF pkg = "blake2b" THEN ivB ELSE ivS

sigmaS ==
  << <<0, 1, 2, 3, 4, 5, 6, 7, 8, 9, 10, 11, 12, 13, 14, 15>>,
     <<14, 10, 4, 8, 9, 15, 13, 6, 1, 12, 0, 2, 11, 7, 5, 3>>,
     <<11, 8, 12, 0, 5, 2, 15, 13, 10, 14, 3, 6, 7, 1, 9, 4>>,
     <<7, 9, 3, 1, 13, 12, 11, 14, 2, 6, 5, 10, 4, 0, 15, 8>>,
     <<9, 0, 5, 7, 2, 4, 10, 15, 14, 1, 11, 12, 6, 8, 3, 13>>,
     <<2, 12, 6, 10, 0, 11, 8, 3, 4, 13, 7, 5, 15, 14, 1, 9>>,
     <<12, 5, 1, 15, 14, 13, 4, 10, 0, 7, 6, 3, 9, 2, 8, 11>>,
     <<13, 11, 7, 14, 12, 1, 3, 9, 5, 0, 15, 4, 8, 6, 2, 10>>,
     <<6, 15, 14, 9, 11, 3, 0, 8, 12, 2, 13, 7, 1, 4, 10, 5>>,
     <<10, 2, 8, 4, 7, 6, 1, 5, 15, 11, 9, 14, 3, 12, 13, 0>> >>
sigmaB ==
  sigmaS \o
  << <<0, 1, 2, 3, 4, 5, 6, 7, 8, 9, 10, 11, 12, 13, 14, 15>>,
     <<14, 10, 4, 8, 9, 15, 13, 6, 1, 12, 0, 2, 11, 7, 5, 3>> >>
sigma(pkg) == IF pkg = "blake2b" THEN sigmaB ELSE sigmaS

\* G with its last two rotation amounts exchanged (not the code's)
RotExchanged(pkg) == IF pkg = "blake2b" THEN <<32, 24, 63, 16>> ELSE <<16, 12, 7, 8>>

\* the four rotation amounts written in G
Rot(pkg) == IF pkg = "blake2b" THEN <<32, 24, 16, 63>> ELSE <<16, 12, 8, 7>>
\* the bound of the round loop: for i := 0; i < 12 (10); i++
RoundsB == 12
RoundsS == 10
Rounds(pkg) == IF pkg = "blake2b" THEN RoundsB ELSE RoundsS

-----------------------------------------------------------------------------
(* type digest struct.  key is a Go slice: nil, or a sequence of bytes.    *)

NilSlice == [nil |-> TRUE, b |-> <<>>]
Slice(bytes) == [nil |-> FALSE, b |-> bytes]
len(s) == Len(s.b)

RECURSIVE Zeros(_)
Zeros(n) ==
  IF n = 0 THEN <<>>
  ELSE IF n = 1 THEN <<0>>
  ELSE Zeros(n \div 2) \o Zeros(n - n \div 2)

\* new(digest): every field zero
newDigest(pkg) ==
  [ h |-> <<Zero(pkg), Zero(pkg), Zero(pkg), Zero(pkg),
            Zero(pkg), Zero(pkg), Zero(pkg), Zero(pkg)>>,
    t |-> <<Zero(pkg), Zero(pkg)>>,
    f |-> <<Zero(pkg), Zero(pkg)>>,
    buf |-> Zeros(2 * BlockSize(pkg)),
    buflen |-> 0,
    key |-> NilSlice ]

\* copy(dst[at:], src) on a buffer dst: Go copies min(len(dst) - at, len(src))
\* bytes
Min(a, b) == IF a < b THEN a ELSE b
copy(dst, at, src) ==
  LET n == Min(Len(dst) - at, Len(src))
  IN  SubSeq(dst, 1, at) \o SubSeq(src, 1, n) \o SubSeq(dst, at + n + 1, Len(dst))

-----------------------------------------------------------------------------
(* func (d *digest) compress()                                             *)

\* the first half of G, on the four words it touches, with message word x:
\*   v[a] = v[a] + v[b] + x;  v[d] = rotr(v[d] ^ v[a], r1)
\*   v[c] = v[c] + v[d];      v[b] = rotr(v[b] ^ v[c], r2)
\* the second half is the same with the next message word and r3, r4
GA(q, x) == <<Add(Add(q[1], q[2]), x), q[2], q[3], q[4]>>
GD(q, r) == <<q[1], q[2], q[3], rotr(Xor(q[4], q[1]), r)>>
GC(q) == <<q[1], q[2], Add(q[3], q[4]), q[4]>>
GB(q, r) == <<q[1], rotr(Xor(q[2], q[3]), r), q[3], q[4]>>
GHalf(q, x, r1, r2) == GB(GC(GD(GA(q, x), r1)), r2)

\* v with the four words at a, b, c, d (from 0) replaced by those of q
Put(v, a, b, c, dd, q) ==
  [v EXCEPT ![a + 1] = q[1], ![b + 1] = q[2], ![c + 1] = q[3], ![dd + 1] = q[4]]

\* G := func(r, i, a, b, c, d int), on the work vector v and the message
\* words m (both indexed from 1 here)
G(pkg, v, m, r, i, a, b, c, dd) ==
  Put(v, a, b, c, dd,
      GHalf(GHalf(<<v[a + 1], v[b + 1], v[c + 1], v[dd + 1]>>,
                  m[sigma(pkg)[r + 1][2 * i + 1] + 1], Rot(pkg)[1], Rot(pkg)[2]),
            m[sigma(pkg)[r + 1][2 * i + 2] + 1], Rot(pkg)[3], Rot(pkg)[4]))

\* one pass of the body of: for i := 0; i < 12; i++ { G(i, 0, ...) ... }
Round(pkg, v, m, i) ==
  G(pkg, G(pkg, G(pkg, G(pkg, G(pkg, G(pkg, G(pkg, G(pkg, v,
    m, i, 0, 0, 4, 8, 12),
    m, i, 1, 1, 5, 9, 13),
    m, i, 2, 2, 6, 10, 14),
    m, i, 3, 3, 7, 11, 15),
    m, i, 4, 0, 5, 10, 15),
    m, i, 5, 1, 6, 11, 12),
    m, i, 6, 2, 7, 8, 13),
    m, i, 7, 3, 4, 9, 14)

RECURSIVE RoundsFrom(_, _, _, _)
RoundsFrom(pkg, v, m, i) ==
  IF i >= Rounds(pkg) \/ Len(v) # 16 THEN v
  ELSE RoundsFrom(pkg, Round(pkg, v, m, i), m, i + 1)

\* m[i] = binary.LittleEndian.Uint64(d.buf[i*8:]), i < 16
MessageWords(pkg, b, wb) ==
  << LittleEndianWord(pkg, b, 0 * wb), LittleEndianWord(pkg, b, 1 * wb),
     LittleEndianWord(pkg, b, 2 * wb), LittleEndianWord(pkg, b, 3 * wb),
     LittleEndianWord(pkg, b, 4 * wb), LittleEndianWord(pkg, b, 5 * wb),
     LittleEndianWord(pkg, b, 6 * wb), LittleEndianWord(pkg, b, 7 * wb),
     LittleEndianWord(pkg, b, 8 * wb), LittleEndianWord(pkg, b, 9 * wb),
     LittleEndianWord(pkg, b, 10 * wb), LittleEndianWord(pkg, b, 11 * wb),
     LittleEndianWord(pkg, b, 12 * wb), LittleEndianWord(pkg, b, 13 * wb),
     LittleEndianWord(pkg, b, 14 * wb), LittleEndianWord(pkg, b, 15 * wb) >>

\* v[i] = d.h[i], i < 8; v[8..11] = iv[0..3]; v[12] = d.t[0] ^ iv[4]; ...
WorkVector(d, IV) ==
  << d.h[1], d.h[2], d.h[3], d.h[4], d.h[5], d.h[6], d.h[7], d.h[8],
     IV[1], IV[2], IV[3], IV[4],
     Xor(d.t[1], IV[5]), Xor(d.t[2], IV[6]), Xor(d.f[1], IV[7]), Xor(d.f[2], IV[8]) >>

\* d.h[i] = d.h[i] ^ v[i] ^ v[i+8], i < 8
Feed(h, v) ==
  << Xor(Xor(h[1], v[1]), v[9]),  Xor(Xor(h[2], v[2]), v[10]),
     Xor(Xor(h[3], v[3]), v[11]), Xor(Xor(h[4], v[4]), v[12]),
     Xor(Xor(h[5], v[5]), v[13]), Xor(Xor(h[6], v[6]), v[14]),
     Xor(Xor(h[7], v[7]), v[15]), Xor(Xor(h[8], v[8]), v[16]) >>

\* a compression that sets the second flag word as well (not the code's)
compressSetsFlag(pkg, d) ==
  [d EXCEPT !.h = Feed(d.h, RoundsFrom(pkg, WorkVector(d, iv(pkg)),
                                       MessageWords(pkg, d.buf, WordBytes(pkg)), 0)),
            !.f = <<d.f[1], AllOnes(pkg)>>]

\* the engine after d.compress()
compress(pkg, d) ==
  [d EXCEPT !.h = Feed(d.h, RoundsFrom(pkg, WorkVector(d, iv(pkg)),
                                       MessageWords(pkg, d.buf, WordBytes(pkg)), 0))]

\* func (d *digest) incrementCounter(inc): d.t[0] += inc; if d.t[0] < inc
\* { d.t[1]-- }   (x - 1 modulo 2^W is x + (2^W - 1))
Carry(pkg, t0, t1, inc) ==
  IF Less(t0, inc) THEN <<t0, Add(t1, AllOnes(pkg))>> ELSE <<t0, t1>>
incrementCounter(pkg, d, inc) ==
  [d EXCEPT !.t = Carry(pkg, Add(d.t[1], Word(pkg, inc)), d.t[2], Word(pkg, inc))]

-----------------------------------------------------------------------------
(* A call on an engine is followed through its steps as an outcome record: *)
(* d the engine so far, calls the compress calls made (block, t and f of   *)
(* each), panic whether the call stopped on a run-time panic, offset the   *)
(* input bytes copied so far, out the slice returned (Sum).                *)

Begin(d) == [d |-> d, calls |-> <<>>, panic |-> FALSE, offset |-> 0, out |-> <<>>]

\* what one compress call reads
CompressCall(pkg, d) == [block |-> SubSeq(d.buf, 1, BlockSize(pkg)), t |-> d.t, f |-> d.f]

\* d.incrementCounter(inc); d.compress()
CountAndCompress(pkg, o, inc) ==
  [o EXCEPT !.d = compress(pkg, incrementCounter(pkg, o.d, inc)),
            !.calls = Append(o.calls, CompressCall(pkg, incrementCounter(pkg, o.d, inc)))]

-----------------------------------------------------------------------------
(* func (d *digest) Write(buf []byte) (int, error)                         *)

\* the source of the copy in the compress branch: buf[:fill] in blake2b,
\* buf[offset:fill] in blake2s; a slice expression s[lo:hi] panics unless
\* 0 <= lo <= hi <= cap(s) (a caller's slice is taken to have cap = len)
FillLow(pkg, offset) == IF pkg = "blake2b" THEN 0 ELSE offset
SlicePanics(s, lo, hi) == ~(0 <= lo /\ lo <= hi /\ hi <= Len(s))

\* a fill that counts one byte more than it was given (not the code's)
FillOneMore(o, src, n) ==
  [o EXCEPT !.d.buf = copy(o.d.buf, o.d.buflen, src), !.d.buflen = o.d.buflen + n + 1]

\* copy(d.buf[left:], src); d.buflen += n
Fill(o, src, n) ==
  [o EXCEPT !.d.buf = copy(o.d.buf, o.d.buflen, src), !.d.buflen = o.d.buflen + n]

\* copy(d.buf[:BlockSize], d.buf[BlockSize:]); d.buflen -= BlockSize;
\* offset += fill
Shift(pkg, o, fill) ==
  [o EXCEPT !.d.buf = copy(SubSeq(o.d.buf, 1, BlockSize(pkg)), 0,
                           SubSeq(o.d.buf, BlockSize(pkg) + 1, Len(o.d.buf)))
                        \o SubSeq(o.d.buf, BlockSize(pkg) + 1, Len(o.d.buf)),
            !.d.buflen = o.d.buflen - BlockSize(pkg),
            !.offset = o.offset + fill]

\* offset += inlen
Advance(o, inlen) == [o EXCEPT !.offset = o.offset + inlen]

Panic(o) == [o EXCEPT !.panic = TRUE]

\* the loop: for inlen > 0 { ... }
RECURSIVE WriteLoop(_, _, _, _)
WriteLoop(pkg, o, buf, inlen) ==
  IF ~(inlen > 0) THEN o
  ELSE
    LET left == o.d.buflen
        fill == 2 * BlockSize(pkg) - left
    IN  IF inlen > fill
        THEN
          IF left > Len(o.d.buf) \/ SlicePanics(buf, FillLow(pkg, o.offset), fill)
          THEN Panic(o)
          ELSE WriteLoop(pkg,
                 Shift(pkg,
                   CountAndCompress(pkg,
                     Fill(o, SubSeq(buf, FillLow(pkg, o.offset) + 1, fill), fill),
                     BlockSize(pkg)),
                   fill),
                 buf, inlen - fill)
        ELSE
          IF left > Len(o.d.buf) \/ SlicePanics(buf, o.offset, Len(buf))
          THEN Panic(o)
          ELSE WriteLoop(pkg,
                 Advance(Fill(o, SubSeq(buf, o.offset + 1, Len(buf)), inlen), inlen),
                 buf, inlen - inlen)

\* the values Write returns when it returns: return 0, nil
WriteReturn == [n |-> 0, err |-> "nil"]

Write(pkg, d, buf) == WriteLoop(pkg, Begin(d), buf, Len(buf))

-----------------------------------------------------------------------------
(* func (d *digest) Reset(), func New(), func NewKeyed(key []byte)         *)

\* a parameter block without fanout and depth (not the code's)
ParamBlockNoTree(pkg, keylen) == <<Size(pkg), keylen % 256, 0, 0>> \o Zeros(BlockSize(pkg) - 4)

\* p := make([]byte, BlockSize); p[0] = 64; p[1] = uint8(keylen); p[2] = 1; p[3] = 1
ParamBlock(pkg, keylen) == <<Size(pkg), keylen % 256, 1, 1>> \o Zeros(BlockSize(pkg) - 4)

\* d.h[i] = iv[i] ^ binary.LittleEndian.Uint64(p[i*8:]), i < 8
InitialH(pkg, IV, p, wb) ==
  << Xor(IV[1], LittleEndianWord(pkg, p, 0 * wb)), Xor(IV[2], LittleEndianWord(pkg, p, 1 * wb)),
     Xor(IV[3], LittleEndianWord(pkg, p, 2 * wb)), Xor(IV[4], LittleEndianWord(pkg, p, 3 * wb)),
     Xor(IV[5], LittleEndianWord(pkg, p, 4 * wb)), Xor(IV[6], LittleEndianWord(pkg, p, 5 * wb)),
     Xor(IV[7], LittleEndianWord(pkg, p, 6 * wb)), Xor(IV[8], LittleEndianWord(pkg, p, 7 * wb)) >>

\* keylen := len(d.key); if keylen > KeySize { keylen = KeySize }
KeyLen(pkg, d) == IF len(d.key) > KeySize(pkg) THEN KeySize(pkg) ELSE len(d.key)

\* block := make([]byte, BlockSize); copy(block[:], d.key[:keylen])
KeyBlock(pkg, d) == copy(Zeros(BlockSize(pkg)), 0, SubSeq(d.key.b, 1, KeyLen(pkg, d)))

\* a Reset that leaves d.buflen as it is (not the code's)
ClearedButBuflen(pkg, d) ==
  [d EXCEPT !.f = <<Zero(pkg), Zero(pkg)>>,
            !.t = <<Zero(pkg), Zero(pkg)>>,
            !.h = InitialH(pkg, iv(pkg), ParamBlock(pkg, KeyLen(pkg, d)), WordBytes(pkg))]

\* the fields Reset assigns before it looks at the key
Cleared(pkg, d) ==
  [d EXCEPT !.f = <<Zero(pkg), Zero(pkg)>>,
            !.t = <<Zero(pkg), Zero(pkg)>>,
            !.buflen = 0,
            !.h = InitialH(pkg, iv(pkg), ParamBlock(pkg, KeyLen(pkg, d)), WordBytes(pkg))]

\* a Reset that absorbs a key block for every key that is not nil (not the
\* code's)
ResetAnyKey(pkg, d) ==
  IF ~d.key.nil
  THEN Write(pkg, Cleared(pkg, d), KeyBlock(pkg, d))
  ELSE Begin(Cleared(pkg, d))

Reset(pkg, d) ==
  IF KeyLen(pkg, d) > 0
  THEN Write(pkg, Cleared(pkg, d), KeyBlock(pkg, d))
  ELSE Begin(Cleared(pkg, d))

New(pkg) == Reset(pkg, newDigest(pkg))

NewKeyed(pkg, key) == Reset(pkg, [newDigest(pkg) EXCEPT !.key = key])

-----------------------------------------------------------------------------
(* func (d *digest) Sum(buf []byte) []byte                                 *)

\* buffer := make([]byte, 64); PutUint64(buffer[i*8:], d.h[i]) for i < 8
HashBytes(h) ==
  WordBytesLE(h[1]) \o WordBytesLE(h[2]) \o WordBytesLE(h[3]) \o WordBytesLE(h[4])
    \o WordBytesLE(h[5]) \o WordBytesLE(h[6]) \o WordBytesLE(h[7]) \o WordBytesLE(h[8])

\* d.buflen -= BlockSize; copy(d.buf[:d.buflen], d.buf[BlockSize:])
SumShift(pkg, o) ==
  [o EXCEPT !.d.buf = copy(SubSeq(o.d.buf, 1, o.d.buflen - BlockSize(pkg)), 0,
                           SubSeq(o.d.buf, BlockSize(pkg) + 1, Len(o.d.buf)))
                        \o SubSeq(o.d.buf, o.d.buflen - BlockSize(pkg) + 1, Len(o.d.buf)),
            !.d.buflen = o.d.buflen - BlockSize(pkg)]

\* a Sum that compresses the first block as soon as the buffer holds a whole
\* one (not the code's)
SumFirstSkipped(pkg, o) == o

SumFirstEager(pkg, o) ==
  IF o.d.buflen >= BlockSize(pkg)
  THEN SumShift(pkg, CountAndCompress(pkg, o, BlockSize(pkg)))
  ELSE o

\* if d.buflen > BlockSize { incrementCounter(BlockSize); compress(); ... }
SumFirst(pkg, o) ==
  IF o.d.buflen > BlockSize(pkg)
  THEN SumShift(pkg, CountAndCompress(pkg, o, BlockSize(pkg)))
  ELSE o

\* d.f[0] = 0xff...; for i := 0; i < 2*BlockSize - d.buflen; i++ { d.buf[i+d.buflen] = 0 },
\* placed before the counter is incremented: neither reads d.t
SumPad(pkg, o) ==
  [o EXCEPT !.d.f[1] = AllOnes(pkg),
            !.d.buf = SubSeq(o.d.buf, 1, o.d.buflen) \o Zeros(2 * BlockSize(pkg) - o.d.buflen)]

\* a Sum that counts a whole block for the last one (not the code's)
SumLastCountsBlock(pkg, o) == CountAndCompress(pkg, o, BlockSize(pkg))

\* d.incrementCounter(uint64(d.buflen)); ...; d.compress()
SumLast(pkg, o) == CountAndCompress(pkg, o, o.d.buflen)

\* a Sum that returns the digest alone (not the code's)
SumReturnsDigest(o, buf) == [o EXCEPT !.out = HashBytes(o.d.h)]

\* return append(buf, buffer[:]...)
SumReturn(o, buf) == [o EXCEPT !.out = buf \o HashBytes(o.d.h)]

Sum(pkg, d, buf) == SumReturn(SumLast(pkg, SumPad(pkg, SumFirst(pkg, Begin(d)))), buf)

-----------------------------------------------------------------------------
(* The state machine: one engine of one package, and what its caller does  *)
(* with it.                                                                *)

VARIABLES
  pkg,      \* the package the engine belongs to
  d,        \* the engine, a digest struct
  fresh,    \* a second engine, created anew (new(digest), same key) at every
            \* initialization of d and given the same calls since
  log,      \* the compress calls made on d since its last initialization
  total,    \* the bytes d's Write loop has consumed since then, key block included
  sums,     \* the Sum calls made on d since then
  aborted,  \* whether a Write on d has panicked since d was last reset
  calls,    \* the calls made on d since it was constructed
  ret       \* the last call: its argument and what it returned

vars == <<pkg, d, fresh, log, total, sums, aborted, calls, ret>>

\* the caller makes at most MaxCalls calls on an engine, and its longest
\* Write is of MaxBlocks blocks and two bytes
MaxCalls == 3
MaxBlocks == 2

\* the message the caller hashes: "abc" and on, no two blocks alike
Message(from, n) == [i \in 1..n |-> (97 + from + i - 1) % 251]

\* the lengths of the caller's writes
WriteLens(p) == {3, BlockSize(p) - 1, BlockSize(p) + 1, MaxBlocks * BlockSize(p) + 2}

\* the keys the caller constructs engines with: an empty one and one of
\* KeySize bytes; and the keys that are too long, by one byte
Keys(p) == { Slice(<<>>), Slice([i \in 1..KeySize(p) |-> i]) }
OversizedKeys(p) == { Slice([i \in 1..(KeySize(p) + 1) |-> i]) }

\* the slices the caller passes to Sum, to have the digest appended
Prefixes == { <<222, 173>> }

Returned(op, arg, n, err, panic, out, freshOut, ncompress) ==
  [op |-> op, arg |-> arg, n |-> n, err |-> err, panic |-> panic, out |-> out,
   freshOut |-> freshOut, ncompress |-> ncompress]

\* a newly constructed engine with the key of engine e
Fresh(p, e) == IF e.key.nil THEN New(p) ELSE NewKeyed(p, e.key)

\* the state when a constructor has returned o
Constructed(o) ==
  /\ d = o.d
  /\ fresh = o.d
  /\ log = o.calls
  /\ total = o.offset
  /\ ret = Returned(IF o.d.key.nil THEN "New" ELSE "NewKeyed", o.d.key.b, 0, "none",
                    o.panic, <<>>, <<>>, Len(o.calls))
  /\ aborted = o.panic
  /\ sums = 0
  /\ calls = 0

\* New(), or NewKeyed(key) with a key of at most KeySize bytes
Init ==
  /\ pkg \in Packages
  /\ \E o \in {New(pkg)} \cup {NewKeyed(pkg, k) : k \in Keys(pkg)} : Constructed(o)

\* NewKeyed([]byte{})
InitEmptyKey ==
  /\ pkg \in Packages
  /\ Constructed(NewKeyed(pkg, Slice(<<>>)))

\* NewKeyed(key) with a key of more than KeySize bytes
InitOversizedKey ==
  /\ pkg \in Packages
  /\ \E k \in OversizedKeys(pkg) : Constructed(NewKeyed(pkg, k))

\* the outcome of a Write or Sum on fresh: equal engines give equal outcomes,
\* so it is o, that of the call on d, when fresh = d, and of otherwise
OnFresh(o, of) == IF fresh = d THEN o ELSE of

\* the state after a call with outcome o on d and outcome of on fresh
After(op, arg, o, of, n, err) ==
  /\ d' = o.d
  /\ fresh' = of.d
  /\ ret' = Returned(op, arg, n, err, o.panic, o.out, of.out, Len(o.calls))
  /\ calls' = calls + 1
  /\ UNCHANGED pkg

\* d.Reset()
AfterReset(o, of) ==
  /\ After("Reset", <<>>, o, of, 0, "none")
  /\ log' = o.calls
  /\ total' = o.offset
  /\ sums' = 0
  /\ aborted' = o.panic
DoReset ==
  /\ calls < MaxCalls
  /\ AfterReset(Reset(pkg, d), Fresh(pkg, d))

\* the bytes of the message consumed so far (the key block is not of it)
Position == total - (IF len(d.key) > 0 THEN BlockSize(pkg) ELSE 0)

\* d.Write(buf), buf the next n bytes of the message
AfterWrite(buf, o, of) ==
  /\ IF o.panic
     THEN After("Write", buf, o, OnFresh(o, of), 0, "none")
     ELSE After("Write", buf, o, OnFresh(o, of), WriteReturn.n, WriteReturn.err)
  /\ log' = log \o o.calls
  /\ total' = total + o.offset
  /\ aborted' = (aborted \/ o.panic)
  /\ UNCHANGED sums
DoWrite(n) ==
  /\ calls < MaxCalls
  /\ AfterWrite(Message(Position, n), Write(pkg, d, Message(Position, n)),
                Write(pkg, fresh, Message(Position, n)))

\* d.Sum(buf)
AfterSum(buf, o, of) ==
  /\ After("Sum", buf, o, OnFresh(o, of), 0, "none")
  /\ log' = log \o o.calls
  /\ sums' = sums + 1
  /\ UNCHANGED <<total, aborted>>
DoSum(buf) ==
  /\ calls < MaxCalls
  /\ AfterSum(buf, Sum(pkg, d, buf), Sum(pkg, fresh, buf))

Next ==
  \/ DoReset
  \/ \E n \in WriteLens(pkg) : DoWrite(n)
  \/ \E buf \in Prefixes : DoSum(buf)

Spec == Init /\ [][Next]_vars

\* the same caller with an engine made with an empty key
SpecEmptyKey == InitEmptyKey /\ [][Next]_vars

\* the same caller with an engine made with a key that is too long
SpecOversizedKey == InitOversizedKey /\ [][Next]_vars

\* The counter by itself. An engine that has compressed n bytes has t = n,
\* and n is out of reach of a caller of MaxCalls calls when it is close to
\* 2^W (4 GiB less a block for blake2s), so the engine starts here with its
\* counter at such a value and incrementCounter is applied to it as Write and
\* Sum apply it: by a block, by a buflen of 3, by a buflen of 0.

\* 2^W - k as a word, 1 <= k
NearWrap(p, k) == Xor(Word(p, k - 1), AllOnes(p))

\* the values of d.t[0]: that many whole blocks compressed
CounterLows(p) ==
  { Zero(p), Word(p, BlockSize(p)), NearWrap(p, 2 * BlockSize(p)), NearWrap(p, BlockSize(p)) }

\* the values of d.t[1]
CounterHighs(p) == { Zero(p), Word(p, 1), AllOnes(p) }

\* the increments Write and Sum pass: BlockSize, and d.buflen
Increments(p) == { 0, 3, BlockSize(p) }

InitCounter ==
  /\ pkg \in Packages
  /\ \E t0 \in CounterLows(pkg), t1 \in CounterHighs(pkg) :
       d = [New(pkg).d EXCEPT !.t = <<t0, t1>>]
  /\ fresh = New(pkg).d
  /\ log = <<>>
  /\ total = 0
  /\ sums = 0
  /\ aborted = FALSE
  /\ calls = 0
  /\ ret = Returned("New", <<>>, 0, "none", FALSE, <<>>, <<>>, 0)

\* d.incrementCounter(inc)
DoIncrement(inc) ==
  /\ calls < MaxCalls
  /\ d' = incrementCounter(pkg, d, inc)
  /\ ret' = Returned("incrementCounter", <<inc>>, 0, "none", FALSE, <<>>, <<>>, 0)
  /\ calls' = calls + 1
  /\ UNCHANGED <<pkg, fresh, log, total, sums, aborted>>

NextCounter == \E inc \in Increments(pkg) : DoIncrement(inc)

SpecCounter == InitCounter /\ [][NextCounter]_vars

\* Initialization over the key lengths. The caller makes engines with keys of
\* these lengths, writes three bytes at a time, sums and resets.
KeyLens(p) == {0, 1, 2, 3, 16, KeySize(p) - 1, KeySize(p)}

InitAnyKey ==
  /\ pkg \in Packages
  /\ \E o \in {New(pkg)} \cup {NewKeyed(pkg, Slice([i \in 1..k |-> i])) : k \in KeyLens(pkg)} :
       Constructed(o)

NextAnyKey ==
  \/ DoReset
  \/ DoWrite(3)
  \/ \E buf \in Prefixes : DoSum(buf)

SpecAnyKey == InitAnyKey /\ [][NextAnyKey]_vars

-----------------------------------------------------------------------------
(* Properties                                                              *)

\* C1: streaming equivalence. When the first Sum of a message returns, and no
\* Write of the message has panicked, its digest is the digest of an engine
\* constructed with the same key that received the whole message, the
\* concatenation of the writes, in one Write: that Write does not panic, and
\* its Sum returns the same bytes.
StreamingEquivalence ==
  (ret.op = "Sum" /\ sums = 1 /\ ~aborted) =>
    LET whole == Write(pkg, Fresh(pkg, d).d, Message(0, Position))
    IN  /\ ~whole.panic
        /\ ret.out = Sum(pkg, whole.d, ret.arg).out

\* C2: terminal-state enforcement. A Write or Sum made on an engine on which
\* Sum has been called since it was last reset returns a StateError and no
\* digest.
TerminalStateEnforced ==
  ((ret.op = "Sum" /\ sums >= 2) \/ (ret.op = "Write" /\ sums >= 1)) =>
    /\ ret.err = "StateError"
    /\ ret.out = <<>>

\* C3: Write is total. A Write on an engine constructed with a key of at most
\* KeySize bytes, on which Sum has not been called since it was last reset,
\* returns: it does not panic, whatever the buffer holds and however long the
\* input is.
WriteIsTotal ==
  (ret.op = "Write" /\ sums = 0 /\ len(d.key) <= KeySize(pkg)) => ~ret.panic

\* C4: an oversized key is rejected. NewKeyed with a key longer than KeySize
\* returns a ConfigurationError: no engine holds a key longer than KeySize,
\* none is initialized with such a key cut to KeySize bytes.
OversizedKeyRejected ==
  /\ (ret.op = "NewKeyed" /\ Len(ret.arg) > KeySize(pkg)) => ret.err = "ConfigurationError"
  /\ len(d.key) <= KeySize(pkg)

\* C5 as the specification states it: an unkeyed engine that has absorbed
\* total bytes, no Write having panicked, has compressed floor((total-1)/B)
\* times before Sum is called (0 times for total = 0), and the first Sum
\* compresses exactly once.
CompressionCountAsStated ==
  (len(d.key) = 0 /\ ~aborted) =>
    /\ sums = 0 => Len(log) = (IF total = 0 THEN 0 ELSE (total - 1) \div BlockSize(pkg))
    /\ (ret.op = "Sum" /\ sums = 1) => ret.ncompress = 1

\* C5, amended: the buffer holds two blocks, so the last one or two blocks
\* wait for Sum. An engine that has absorbed total bytes since its last reset
\* (the key block and the bytes a panicking Write consumed before it panicked
\* included) has compressed (total - buflen)/B times before Sum is called:
\* max(0, ceil(total/B) - 2) times when its last Write returned, total/B - 1
\* times when its last Write panicked. The first Sum compresses once or twice,
\* twice if total > B and no Write panicked, and brings the compressions to
\* max(1, ceil(total/B)) in all.
CompressionCount ==
  LET blocks == (total + BlockSize(pkg) - 1) \div BlockSize(pkg)
  IN  /\ sums = 0 =>
           /\ Len(log) * BlockSize(pkg) + d.buflen = total
           /\ Len(log) = (IF ret.panic THEN blocks - 1
                          ELSE IF blocks > 2 THEN blocks - 2 ELSE 0)
      /\ (ret.op = "Sum" /\ sums = 1) =>
           /\ ret.ncompress \in {1, 2}
           /\ ~aborted => ret.ncompress = (IF total > BlockSize(pkg) THEN 2 ELSE 1)
           /\ Len(log) = (IF blocks > 1 THEN blocks ELSE 1)

\* C5 witness: the first Sum has returned on an engine that absorbed 2B+2
\* bytes, none of them in a Write that panicked, and compressed once before
\* that Sum
CompressionCountWitness ==
  /\ ret.op = "Sum" /\ sums = 1 /\ ~aborted
  /\ total = 2 * BlockSize(pkg) + 2
  /\ Len(log) = 3

\* C6: Reset restores a fresh engine. Whatever d was used for before its last
\* Reset, it and the engine constructed with its key at that Reset, given the
\* same calls since, hold the same h, t, f and buflen, returned the same bytes
\* from the last call, and return the same digest if Sum is called now: the
\* bytes earlier use left in d.buf do not reach a digest.
ResetRestores ==
  \/ d = fresh
  \/ /\ d.h = fresh.h /\ d.t = fresh.t /\ d.f = fresh.f /\ d.buflen = fresh.buflen
     /\ ret.out = ret.freshOut
     /\ Sum(pkg, d, <<>>).out = Sum(pkg, fresh, <<>>).out

\* C6 witness: a Write has returned on an engine that was reset, and whose
\* buffer still differs from the buffer of the newly constructed engine
ResetRestoresWitness ==
  /\ ret.op = "Write" /\ ~ret.panic
  /\ d.buf # fresh.buf
  /\ d.buflen > BlockSize(pkg)

\* C7: known vectors. The first Sum of an unkeyed engine that was given
\* nothing, or the three bytes "abc", returns, after the slice it was passed,
\* the BLAKE2b-512, resp. BLAKE2s-256, digest RFC 7693 gives for that input.
KnownVectors ==
  (ret.op = "Sum" /\ sums = 1 /\ d.key.nil /\ Position \in {0, 3}) =>
    ret.out = ret.arg \o
      CASE pkg = "blake2b" /\ Position = 0 ->
             << 120, 106, 2, 247, 66, 1, 89, 3, 198, 198, 253, 133, 37, 82, 210, 114,
               145, 47, 71, 64, 225, 88, 71, 97, 138, 134, 226, 23, 247, 31, 84, 25,
               210, 94, 16, 49, 175, 238, 88, 83, 19, 137, 100, 68, 147, 78, 176, 75,
               144, 58, 104, 91, 20, 72, 183, 85, 213, 111, 112, 26, 254, 155, 226, 206 >>
        [] pkg = "blake2b" /\ Position = 3 ->
             << 186, 128, 165, 63, 152, 28, 77, 13, 106, 39, 151, 182, 159, 18, 246, 233,
               76, 33, 47, 20, 104, 90, 196, 183, 75, 18, 187, 111, 219, 255, 162, 209,
               125, 135, 197, 57, 42, 171, 121, 45, 194, 82, 213, 222, 69, 51, 204, 149,
               24, 211, 138, 168, 219, 241, 146, 90, 185, 35, 134, 237, 212, 0, 153, 35 >>
        [] pkg = "blake2s" /\ Position = 0 ->
             << 105, 33, 122, 48, 121, 144, 128, 148, 225, 17, 33, 208, 66, 53, 74, 124,
               31, 85, 182, 72, 44, 161, 165, 30, 27, 37, 13, 253, 30, 208, 238, 249 >>
        [] pkg = "blake2s" /\ Position = 3 ->
             << 80, 140, 94, 140, 50, 124, 20, 226, 225, 167, 43, 163, 78, 235, 69, 47,
               55, 69, 139, 32, 158, 214, 58, 41, 77, 153, 155, 76, 134, 103, 89, 130 >>

\* C7 witness: the first Sum has returned on an unkeyed blake2s engine that
\* was given "abc"
KnownVectorsWitness ==
  /\ ret.op = "Sum" /\ sums = 1 /\ d.key.nil
  /\ Position = 3 /\ pkg = "blake2s" /\ fresh.buf[1] = 97

\* C8: Sum(prefix) returns the prefix unchanged, followed by Size() bytes of
\* digest, for every key and every input.
SumAppends ==
  ret.op = "Sum" =>
    /\ Len(ret.out) = Len(ret.arg) + Size(pkg)
    /\ SubSeq(ret.out, 1, Len(ret.arg)) = ret.arg
    /\ \A i \in 1..Len(ret.out) : ret.out[i] \in 0..255

\* C8 witness: Sum has returned on an engine with a key of KeySize bytes, for
\* a prefix that is not empty and an input of more than a block
SumAppendsWitness ==
  /\ ret.op = "Sum" /\ ret.arg # <<>>
  /\ len(d.key) = KeySize(pkg)
  /\ Position > BlockSize(pkg)

\* C9: key-independence collapse. NewKeyed with an empty key returns an engine
\* with the h, t, f and buflen of the engine New returns, and every call on an
\* engine with an empty key leaves the state, and returns the bytes, that the
\* same call leaves and returns on the engine that differs from it only in
\* having no key: so the two return the same digest for the same calls.
EmptyKeyIsNoKey ==
  /\ (ret.op = "NewKeyed" /\ Len(ret.arg) = 0) =>
       /\ d.h = New(pkg).d.h /\ d.t = New(pkg).d.t
       /\ d.f = New(pkg).d.f /\ d.buflen = New(pkg).d.buflen
  /\ [][(len(d.key) = 0 /\ ~d.key.nil) =>
          LET Call(u) == CASE ret'.op = "Write" -> Write(pkg, u, ret'.arg)
                           [] ret'.op = "Sum" -> Sum(pkg, u, ret'.arg)
                           [] OTHER -> Reset(pkg, u)
              Same(o) == /\ d' = [o.d EXCEPT !.key = d.key]
                         /\ ret'.out = o.out
                         /\ ret'.panic = o.panic
          IN  Same(Call([d EXCEPT !.key = NilSlice]))]_vars

\* C9 witness: Sum has returned a digest of a message on an engine made by
\* NewKeyed with an empty key
EmptyKeyIsNoKeyWitness ==
  /\ len(d.key) = 0 /\ ~d.key.nil
  /\ ret.op = "Sum" /\ Position > 0

\* C10: a call on a finalized engine changes nothing. A Write or Sum on an
\* engine on which Sum has been called since its last reset leaves h, t, f,
\* buf and buflen as they were.
FinalizedIsFrozen ==
  [][(sums >= 1 /\ ret'.op \in {"Write", "Sum"}) => d' = d]_vars

\* C11: Write consumes its input and says so. A Write that returns, on an
\* engine on which Sum has not been called since it was last reset, returns
\* the count len(buf) and no error.
WriteReturnsCount ==
  (ret.op = "Write" /\ sums = 0 /\ ~ret.panic) =>
    /\ ret.n = Len(ret.arg)
    /\ ret.err = "nil"

\* C12: the blocks follow the input. Let M be the zero-padded key block of a
\* keyed engine followed by the bytes written since the last reset. Before
\* Sum is called and when the first Sum has returned, no Write having
\* panicked, the k-th compression since the reset has read bytes
\* (k-1)*B+1 .. k*B of M, the last one padded with zeros.
BlocksFollowInput ==
  ((sums = 0 \/ (sums = 1 /\ ret.op = "Sum")) /\ ~aborted) =>
    LET M == (IF KeyLen(pkg, d) > 0 THEN KeyBlock(pkg, d) ELSE <<>>)
               \o Message(0, Position) \o Zeros(BlockSize(pkg))
    IN  \A k \in 1..Len(log) :
          log[k].block = SubSeq(M, (k - 1) * BlockSize(pkg) + 1, k * BlockSize(pkg))

\* C13: counter bookkeeping. With total the bytes absorbed since the last
\* reset (key block included): before Sum is called, t + buflen = total, and
\* the k-th compression ran with t = k*B; when the first Sum has returned,
\* every compression but the last ran with t = k*B and the last ran with
\* t = total. The high word of t is 0 throughout.
CounterBookkeeping ==
  /\ sums = 0 =>
       /\ d.t = <<Word(pkg, total - d.buflen), Zero(pkg)>>
       /\ \A k \in 1..Len(log) :
            log[k].t = <<Word(pkg, k * BlockSize(pkg)), Zero(pkg)>>
  /\ (sums = 1 /\ ret.op = "Sum") =>
       /\ \A k \in 1..(Len(log) - 1) :
            log[k].t = <<Word(pkg, k * BlockSize(pkg)), Zero(pkg)>>
       /\ log[Len(log)].t = <<Word(pkg, total), Zero(pkg)>>
       /\ d.t = <<Word(pkg, total), Zero(pkg)>>

\* C13 witness: the first Sum has returned after three compressions or more,
\* the last of a block that was not full
CounterBookkeepingWitness ==
  /\ sums = 1 /\ ret.op = "Sum"
  /\ Len(log) >= 3
  /\ total % BlockSize(pkg) # 0

\* C14: counter carry. incrementCounter(n) sets t0 to (t0 + n) mod 2^W and,
\* exactly when that addition wraps, t1 to (t1 + 1) mod 2^W; otherwise it
\* leaves t1 as it was.
CounterCarries ==
  [][ret'.op = "incrementCounter" =>
       LET n == Word(pkg, ret'.arg[1])
           sum == Add(d.t[1], n)
       IN  d'.t = <<sum, IF Less(sum, n) THEN Add(d.t[2], Word(pkg, 1)) ELSE d.t[2]>>]_vars

\* C15: finalization flag discipline. Of the compressions since the last
\* reset, those made by Write ran with f = (0, 0), only the last of all ran
\* with f0 set, and then f0 was all-ones; f1 is 0 in the engine and in every
\* compression.
FlagDiscipline ==
  /\ d.f[2] = Zero(pkg)
  /\ \A k \in 1..Len(log) :
       /\ log[k].f[2] = Zero(pkg)
       /\ log[k].f[1] # Zero(pkg) => (k = Len(log) /\ log[k].f[1] = AllOnes(pkg))
  /\ ret.op = "Write" =>
       \A k \in (Len(log) - ret.ncompress + 1)..Len(log) :
         log[k].f = <<Zero(pkg), Zero(pkg)>>

BufferBound ==
  /\ 0 <= d.buflen
  /\ d.buflen <= 2 * BlockSize(pkg)
  /\ Len(d.buf) = 2 * BlockSize(pkg)
  /\ ret.panic => (pkg = "blake2s" /\ ret.op = "Write")

\* C17 witness: a Write has returned and left the buffer full
BufferBoundWitness ==
  /\ ret.op = "Write" /\ ~ret.panic
  /\ d.buflen = 2 * BlockSize(pkg)
  /\ Len(log) > 0

\* C18: the state after initialization. When New, NewKeyed or Reset has
\* returned on an engine with a key of k bytes, 0 <= k <= KeySize:
\* h[0] = IV[0] xor (Size + 256*k + 0x01010000), h[i] = IV[i] for the others,
\* t = f = (0, 0); buflen = 0 if k = 0; if k > 0, buflen = B, the buffer
\* starts with the key and B - k zeros, and nothing has been compressed.
InitializedState ==
  ret.op \in {"New", "NewKeyed", "Reset"} =>
    LET k == len(d.key)
    IN  /\ k <= KeySize(pkg)
        /\ d.h[1] = Xor(iv(pkg)[1], Word(pkg, Size(pkg) + 256 * k + 16842752))
        /\ \A i \in 2..8 : d.h[i] = iv(pkg)[i]
        /\ d.t = <<Zero(pkg), Zero(pkg)>>
        /\ d.f = <<Zero(pkg), Zero(pkg)>>
        /\ k = 0 => d.buflen = 0
        /\ k > 0 =>
             /\ d.buflen = BlockSize(pkg)
             /\ SubSeq(d.buf, 1, BlockSize(pkg)) = d.key.b \o Zeros(BlockSize(pkg) - k)
        /\ Len(log) = 0 /\ ret.ncompress = 0
        /\ total = d.buflen

\* C18 witness: Reset has returned on an engine with a key of three bytes
\* that had been written to: the bytes written are still in the buffer,
\* after the key block
InitializedStateWitness ==
  /\ ret.op = "Reset"
  /\ len(d.key) = 3
  /\ d.buf[BlockSize(pkg) + 1] # 0

\* C19: the frame of compression. A compression of the engine changes h and
\* nothing else; a Write or Sum that compresses nothing leaves h as it was;
\* and a Write of data that fits (buflen + len(data) <= 2B) compresses
\* nothing, leaves h, t, f and the key as they were and appends the data to
\* the buffer.
CompressionFrame ==
  [][ /\ [compress(pkg, d') EXCEPT !.h = d'.h] = d'
      /\ (ret'.op \in {"Write", "Sum"} /\ ret'.ncompress = 0) => d'.h = d.h
      /\ (ret'.op = "Write" /\ d.buflen + Len(ret'.arg) <= 2 * BlockSize(pkg)) =>
           /\ ret'.ncompress = 0 /\ ~ret'.panic
           /\ d'.h = d.h /\ d'.t = d.t /\ d'.f = d.f /\ d'.key = d.key
           /\ d'.buflen = d.buflen + Len(ret'.arg)
           /\ d'.buf = SubSeq(d.buf, 1, d.buflen) \o ret'.arg
                         \o SubSeq(d.buf, d.buflen + Len(ret'.arg) + 1, 2 * BlockSize(pkg))
    ]_vars

\* C19 witness: a Write that compressed nothing has returned on an engine
\* that had compressed before and whose buffer holds more than a block
CompressionFrameWitness ==
  /\ ret.op = "Write" /\ ret.ncompress = 0 /\ ~ret.panic
  /\ Len(log) > 0
  /\ d.buflen > BlockSize(pkg)
  /\ sums = 0

====
